---- MODULE Spec2Model ----
(***************************************************************************)
(* Bootstrap of the master node: weed/command/master.go.                   *)
(*                                                                         *)
(* runMaster validates the meta folder and the volume size limit, then     *)
(* startMaster resolves the peer list (checkPeers), constructs the master  *)
(* server, binds the HTTP listener, constructs the raft server, binds the  *)
(* gRPC listener, registers the services, starts three goroutines and      *)
(* blocks in select {}.                                                    *)
(*                                                                         *)
(* Go strings are modelled as sequences of one-character strings, so that  *)
(* strings.Split, strconv.Itoa and string concatenation are computed the   *)
(* way the library computes them.                                          *)
(***************************************************************************)
EXTENDS Integers, Sequences, FiniteSets, TLC

VARIABLES
    m,                \* MasterOptions: the parsed flags (master.go:25-43)
    pc,               \* the statement the main goroutine is at
    exit,             \* "running", or the glog.Fatalf that ended the process
    folderErr,        \* err of util.TestFolderWritable: "unchecked", "nil", "err"
    masterAddress,    \* checkPeers' first named result
    cleanedPeers,     \* checkPeers' second named result
    myMasterAddress,  \* startMaster local, assigned when checkPeers returns
    peers,            \* startMaster local, assigned when checkPeers returns
    r,                \* the mux router
    ms,               \* the master server
    masterListener,   \* the HTTP listener
    raftServer,       \* the raft server
    grpcL,            \* the gRPC listener
    grpcS,            \* the gRPC server
    tasks,            \* the three goroutines started by startMaster
    httpResponses     \* how GET /cluster/status requests were answered

vars == <<m, pc, exit, folderErr, masterAddress, cleanedPeers,
          myMasterAddress, peers, r, ms, masterListener, raftServer, grpcL,
          grpcS, tasks, httpResponses>>

-----------------------------------------------------------------------------
(* Bounds of the model *)

\* largest number of comma-separated entries in the -peers flag
MaxPeers == 3

-----------------------------------------------------------------------------
(* Strings *)

Digits == <<"0", "1", "2", "3", "4", "5", "6", "7", "8", "9">>

\* strconv.Itoa: the decimal representation of n
RECURSIVE ItoaNat(_)
ItoaNat(n) == IF n < 10 THEN <<Digits[n + 1]>>
              ELSE ItoaNat(n \div 10) \o <<Digits[(n % 10) + 1]>>

Itoa(n) == IF n < 0 THEN <<"-">> \o ItoaNat(0 - n) ELSE ItoaNat(n)

\* strings.Split(s, sep) for a one-character separator: the substrings
\* between the separators; an empty s yields one empty substring
RECURSIVE SplitFrom(_, _, _, _, _)
SplitFrom(s, sep, i, cur, acc) ==
    IF i > Len(s) THEN Append(acc, cur)
    ELSE IF s[i] = sep THEN SplitFrom(s, sep, i + 1, <<>>, Append(acc, cur))
    ELSE SplitFrom(s, sep, i + 1, Append(cur, s[i]), acc)

Split(s, sep) == SplitFrom(s, sep, 1, <<>>, <<>>)

-----------------------------------------------------------------------------
(* Flag values the model draws from *)

H1 == <<"1", "0", ".", "0", ".", "0", ".", "1">>
H2 == <<"1", "0", ".", "0", ".", "0", ".", "2">>
H3 == <<"1", "0", ".", "0", ".", "0", ".", "3">>
AnyHost == <<"0", ".", "0", ".", "0", ".", "0">>

IPs == {H1, H2}
BindHosts == {AnyHost, H1}
Ports == {80, 9333}
VolumeSizeLimits == {29999, 30000, 30001}

P9333 == <<"9", "3", "3", "3">>

\* entries a -peers flag is made of: three addresses, the empty entry (as
\* left by a trailing or doubled comma) and an address with a leading blank
PeerEntries == {H1 \o <<":">> \o P9333, H2 \o <<":">> \o P9333,
                H3 \o <<":">> \o P9333, <<>>,
                <<" ">> \o H1 \o <<":">> \o P9333}

RECURSIVE Join(_, _)
Join(es, sep) == IF es = <<>> THEN <<>>
                 ELSE IF Len(es) = 1 THEN es[1]
                 ELSE es[1] \o <<sep>> \o Join(Tail(es), sep)

EntryLists == UNION {[1..n -> PeerEntries] : n \in 0..MaxPeers}

RawPeerLists == {Join(es, ",") : es \in EntryLists}

-----------------------------------------------------------------------------
(* checkPeers *)

MasterAddressFromBind(masterIp, masterPort) ==
    m.ipBind \o <<":">> \o Itoa(masterPort)

\* masterAddress = masterIp + ":" + strconv.Itoa(masterPort)
MasterAddress(masterIp, masterPort) == masterIp \o <<":">> \o Itoa(masterPort)

SplitPeersNoEmptyCheck(rawPeers) == Split(rawPeers, ",")

SplitPeersSkipEmpty(rawPeers) ==
    IF rawPeers /= <<>>
    THEN SelectSeq(Split(rawPeers, ","), LAMBDA entry : entry /= <<>>)
    ELSE <<>>

\* if peers != "" { cleanedPeers = strings.Split(peers, ",") }
SplitPeers(rawPeers) == IF rawPeers /= <<>> THEN Split(rawPeers, ",") ELSE <<>>

\* the loop that looks for masterAddress among the entries
HasSelf(candidates, self) ==
    \E i \in 1..Len(candidates) : candidates[i] = self

CleanedPeersAlwaysAppend(masterIp, masterPort, rawPeers) ==
    Append(SplitPeers(rawPeers), MasterAddress(masterIp, masterPort))

\* the list checkPeers holds when it reaches the parity check
CleanedPeers(masterIp, masterPort, rawPeers) ==
    LET self == MasterAddress(masterIp, masterPort)
        candidates == SplitPeers(rawPeers)
    IN  IF ~HasSelf(candidates, self)
        THEN Append(candidates, self)
        ELSE candidates

EvenPeersNeverRejected(list) == FALSE

\* len(cleanedPeers)%2 == 0
EvenPeers(list) == Len(list) % 2 = 0

-----------------------------------------------------------------------------
(* Program constants *)

\* util.VolumeSizeLimitGB
VolumeSizeLimitGB == 30

\* grpcPort := *masterOption.port + 10000
GrpcPortOffset == 10000

GrpcPortShortOffset(port) == port + 1000

GrpcPort(port) == port + GrpcPortOffset

VolumeSizeLimitReached(volumeSizeLimitMB) == volumeSizeLimitMB >= VolumeSizeLimitGB * 1000

\* *m.volumeSizeLimitMB > util.VolumeSizeLimitGB*1000
VolumeSizeLimitExceeded(volumeSizeLimitMB) == volumeSizeLimitMB > VolumeSizeLimitGB * 1000

-----------------------------------------------------------------------------
(* Control flow of the main goroutine *)

ProgramOrderGrpcServerFirst ==
    <<"TestFolderWritable", "volumeSizeLimitMB",
      "checkPeers", "NewRouter", "NewMasterServer", "masterListener",
      "NewRaftServer", "SetRaftServer", "HandleFunc", "NewGrpcServer",
      "grpcL", "RegisterSeaweedServer", "RegisterRaftServer",
      "reflectionRegister", "goGrpcServe", "goKeepConnectedToMaster",
      "goHttpServe", "select">>

ProgramOrderRegisterFirst ==
    <<"TestFolderWritable", "volumeSizeLimitMB",
      "checkPeers", "NewRouter", "NewMasterServer", "masterListener",
      "NewRaftServer", "HandleFunc", "grpcL",
      "NewGrpcServer", "RegisterSeaweedServer", "RegisterRaftServer",
      "SetRaftServer", "reflectionRegister", "goGrpcServe",
      "goKeepConnectedToMaster", "goHttpServe", "select">>

ProgramOrderPeersAfterListen ==
    <<"TestFolderWritable", "volumeSizeLimitMB",
      "NewRouter", "masterListener", "checkPeers", "NewMasterServer",
      "NewRaftServer", "SetRaftServer", "HandleFunc", "grpcL",
      "NewGrpcServer", "RegisterSeaweedServer", "RegisterRaftServer",
      "reflectionRegister", "goGrpcServe", "goKeepConnectedToMaster",
      "goHttpServe", "select">>

ProgramOrderServeBeforeRoute ==
    <<"TestFolderWritable", "volumeSizeLimitMB",
      "checkPeers", "NewRouter", "NewMasterServer", "masterListener",
      "NewRaftServer", "SetRaftServer", "grpcL",
      "NewGrpcServer", "RegisterSeaweedServer", "RegisterRaftServer",
      "reflectionRegister", "goGrpcServe", "goKeepConnectedToMaster",
      "goHttpServe", "HandleFunc", "select">>

\* the statements of runMaster and of startMaster, which it calls, in the
\* order the main goroutine executes them; select {} is the last one
ProgramOrder ==
    <<"TestFolderWritable", "volumeSizeLimitMB",
      "checkPeers", "NewRouter", "NewMasterServer", "masterListener",
      "NewRaftServer", "SetRaftServer", "HandleFunc", "grpcL",
      "NewGrpcServer", "RegisterSeaweedServer", "RegisterRaftServer",
      "reflectionRegister", "goGrpcServe", "goKeepConnectedToMaster",
      "goHttpServe", "select">>

IndexOf(label) == CHOOSE i \in 1..Len(ProgramOrder) : ProgramOrder[i] = label

\* the statement executed after label
After(label) == ProgramOrder[IndexOf(label) + 1]

\* glog.Fatalf: the message is logged and the process exits
Fatalf(reason) == /\ exit' = reason
                  /\ pc' = "exited"

Goto(label) == /\ pc' = label
               /\ exit' = exit

NilListener == [bound |-> FALSE, addr |-> <<>>]
NilMasterServer == [built |-> FALSE, router |-> FALSE, peers |-> <<>>,
                    Topo |-> FALSE, raftServer |-> FALSE]
NilRaftServer == [built |-> FALSE, peers |-> <<>>, serverAddr |-> <<>>,
                  topo |-> FALSE]
NilGrpcServer == [built |-> FALSE, services |-> {}, reflection |-> FALSE]
NilRouter == [built |-> FALSE, routes |-> {}]

TaskNames == {"grpcServe", "keepConnectedToMaster", "httpServe"}

Init ==
    /\ m \in [ip : IPs, ipBind : BindHosts, port : Ports,
              peers : RawPeerLists, volumeSizeLimitMB : VolumeSizeLimits]
    /\ pc = ProgramOrder[1]
    /\ exit = "running"
    /\ folderErr = "unchecked"
    /\ masterAddress = <<>>
    /\ cleanedPeers = <<>>
    /\ myMasterAddress = <<>>
    /\ peers = <<>>
    /\ r = NilRouter
    /\ ms = NilMasterServer
    /\ masterListener = NilListener
    /\ raftServer = NilRaftServer
    /\ grpcL = NilListener
    /\ grpcS = NilGrpcServer
    /\ tasks = [t \in TaskNames |-> "none"]
    /\ httpResponses = {}

-----------------------------------------------------------------------------
(* runMaster *)

TestFolderWritableLogOnly ==
    /\ pc = "TestFolderWritable"
    /\ \E err \in {"nil", "err"} : folderErr' = err
    /\ Goto(After("TestFolderWritable"))
    /\ UNCHANGED <<m, httpResponses, masterAddress, cleanedPeers, myMasterAddress, peers, r,
                   ms, masterListener, raftServer, grpcL, grpcS, tasks>>

\* if err := util.TestFolderWritable(*m.metaFolder); err != nil { glog.Fatalf }
TestFolderWritable ==
    /\ pc = "TestFolderWritable"
    /\ \E err \in {"nil", "err"} :
          /\ folderErr' = err
          /\ IF err /= "nil"
             THEN Fatalf("metaFolder")
             ELSE Goto(After("TestFolderWritable"))
    /\ UNCHANGED <<m, httpResponses, masterAddress, cleanedPeers, myMasterAddress, peers, r,
                   ms, masterListener, raftServer, grpcL, grpcS, tasks>>

\* if *m.volumeSizeLimitMB > util.VolumeSizeLimitGB*1000 { glog.Fatalf }
\* (the white list split before it only builds an argument of
\* NewMasterServer and has no outcome of its own)
CheckVolumeSizeLimit ==
    /\ pc = "volumeSizeLimitMB"
    /\ IF VolumeSizeLimitExceeded(m.volumeSizeLimitMB)
       THEN Fatalf("volumeSizeLimitMB")
       ELSE Goto(After("volumeSizeLimitMB"))
    /\ UNCHANGED <<m, httpResponses, folderErr, masterAddress, cleanedPeers, myMasterAddress,
                   peers, r, ms, masterListener, raftServer, grpcL, grpcS,
                   tasks>>

-----------------------------------------------------------------------------
(* startMaster *)

\* myMasterAddress, peers := checkPeers(ip, port, peers): the named results
\* are computed, and reach startMaster only if the parity check lets
\* checkPeers return
CheckPeers ==
    /\ pc = "checkPeers"
    /\ masterAddress' = MasterAddress(m.ip, m.port)
    /\ cleanedPeers' = CleanedPeers(m.ip, m.port, m.peers)
    /\ IF EvenPeers(cleanedPeers')
       THEN /\ Fatalf("evenPeers")
            /\ UNCHANGED <<myMasterAddress, peers>>
       ELSE /\ Goto(After("checkPeers"))
            /\ myMasterAddress' = masterAddress'
            /\ peers' = cleanedPeers'
    /\ UNCHANGED <<m, httpResponses, folderErr, r, ms, masterListener, raftServer, grpcL,
                   grpcS, tasks, httpResponses>>

\* r := mux.NewRouter()
NewRouter ==
    /\ pc = "NewRouter"
    /\ r' = [built |-> TRUE, routes |-> {}]
    /\ Goto(After("NewRouter"))
    /\ UNCHANGED <<m, httpResponses, folderErr, masterAddress, cleanedPeers, myMasterAddress,
                   peers, ms, masterListener, raftServer, grpcL, grpcS, tasks>>

\* ms := weed_server.NewMasterServer(r, options, peers)
NewMasterServer ==
    /\ pc = "NewMasterServer"
    /\ ms' = [built |-> TRUE, router |-> r.built, peers |-> peers,
              Topo |-> TRUE, raftServer |-> FALSE]
    /\ Goto(After("NewMasterServer"))
    /\ UNCHANGED <<m, httpResponses, folderErr, masterAddress, cleanedPeers, myMasterAddress,
                   peers, r, masterListener, raftServer, grpcL, grpcS, tasks>>

\* listeningAddress := ipBind + ":" + strconv.Itoa(port)
ListeningAddress == m.ipBind \o <<":">> \o Itoa(m.port)

\* masterListener, e := util.NewListener(listeningAddress, 0); fatal on e
NewMasterListener ==
    /\ pc = "masterListener"
    /\ \E e \in {"nil", "err"} :
          IF e /= "nil"
          THEN /\ Fatalf("masterListener")
               /\ UNCHANGED masterListener
          ELSE /\ masterListener' = [bound |-> TRUE, addr |-> ListeningAddress]
               /\ Goto(After("masterListener"))
    /\ UNCHANGED <<m, httpResponses, folderErr, masterAddress, cleanedPeers, myMasterAddress,
                   peers, r, ms, raftServer, grpcL, grpcS, tasks>>

NewRaftServerRawPeers ==
    /\ pc = "NewRaftServer"
    /\ \E result \in {"nil", "server"} :
          IF result = "nil"
          THEN /\ Fatalf("raftServer")
               /\ UNCHANGED raftServer
          ELSE /\ raftServer' = [built |-> TRUE, peers |-> SplitPeers(m.peers),
                                 serverAddr |-> myMasterAddress,
                                 topo |-> ms.Topo]
               /\ Goto(After("NewRaftServer"))
    /\ UNCHANGED <<m, httpResponses, folderErr, masterAddress, cleanedPeers, myMasterAddress,
                   peers, r, ms, masterListener, grpcL, grpcS, tasks>>

\* raftServer := weed_server.NewRaftServer(tls, peers, myMasterAddress,
\*     metaFolder, ms.Topo, pulseSeconds); fatal when it is nil
NewRaftServer ==
    /\ pc = "NewRaftServer"
    /\ \E result \in {"nil", "server"} :
          IF result = "nil"
          THEN /\ Fatalf("raftServer")
               /\ UNCHANGED raftServer
          ELSE /\ raftServer' = [built |-> TRUE, peers |-> peers,
                                 serverAddr |-> myMasterAddress,
                                 topo |-> ms.Topo]
               /\ Goto(After("NewRaftServer"))
    /\ UNCHANGED <<m, httpResponses, folderErr, masterAddress, cleanedPeers, myMasterAddress,
                   peers, r, ms, masterListener, grpcL, grpcS, tasks>>

\* ms.SetRaftServer(raftServer)
SetRaftServer ==
    /\ pc = "SetRaftServer"
    /\ ms' = [ms EXCEPT !.raftServer = raftServer.built]
    /\ Goto(After("SetRaftServer"))
    /\ UNCHANGED <<m, httpResponses, folderErr, masterAddress, cleanedPeers, myMasterAddress,
                   peers, r, masterListener, raftServer, grpcL, grpcS, tasks>>

\* r.HandleFunc("/cluster/status", raftServer.StatusHandler).Methods("GET")
HandleFunc ==
    /\ pc = "HandleFunc"
    /\ r' = [r EXCEPT !.routes = @ \cup {"GET /cluster/status"}]
    /\ Goto(After("HandleFunc"))
    /\ UNCHANGED <<m, httpResponses, folderErr, masterAddress, cleanedPeers, myMasterAddress,
                   peers, ms, masterListener, raftServer, grpcL, grpcS, tasks>>

\* ipBind + ":" + strconv.Itoa(grpcPort)
GrpcListeningAddress == m.ipBind \o <<":">> \o Itoa(GrpcPort(m.port))

NewGrpcListenerErrorIgnored ==
    /\ pc = "grpcL"
    /\ \E err \in {"nil", "err"} :
          IF err /= "nil"
          THEN UNCHANGED grpcL
          ELSE grpcL' = [bound |-> TRUE, addr |-> GrpcListeningAddress]
    /\ Goto(After("grpcL"))
    /\ UNCHANGED <<m, httpResponses, folderErr, masterAddress, cleanedPeers, myMasterAddress,
                   peers, r, ms, masterListener, raftServer, grpcS, tasks>>

\* grpcL, err := util.NewListener(ipBind:grpcPort, 0); fatal on err
NewGrpcListener ==
    /\ pc = "grpcL"
    /\ \E err \in {"nil", "err"} :
          IF err /= "nil"
          THEN /\ Fatalf("grpcL")
               /\ UNCHANGED grpcL
          ELSE /\ grpcL' = [bound |-> TRUE, addr |-> GrpcListeningAddress]
               /\ Goto(After("grpcL"))
    /\ UNCHANGED <<m, httpResponses, folderErr, masterAddress, cleanedPeers, myMasterAddress,
                   peers, r, ms, masterListener, raftServer, grpcS, tasks>>

\* grpcS := util.NewGrpcServer(tls)
NewGrpcServer ==
    /\ pc = "NewGrpcServer"
    /\ grpcS' = [built |-> TRUE, services |-> {}, reflection |-> FALSE]
    /\ Goto(After("NewGrpcServer"))
    /\ UNCHANGED <<m, httpResponses, folderErr, masterAddress, cleanedPeers, myMasterAddress,
                   peers, r, ms, masterListener, raftServer, grpcL, tasks>>

\* master_pb.RegisterSeaweedServer(grpcS, ms)
RegisterSeaweedServer ==
    /\ pc = "RegisterSeaweedServer"
    /\ grpcS' = [grpcS EXCEPT !.services = @ \cup {"Seaweed"}]
    /\ Goto(After("RegisterSeaweedServer"))
    /\ UNCHANGED <<m, httpResponses, folderErr, masterAddress, cleanedPeers, myMasterAddress,
                   peers, r, ms, masterListener, raftServer, grpcL, tasks>>

\* protobuf.RegisterRaftServer(grpcS, raftServer)
RegisterRaftServer ==
    /\ pc = "RegisterRaftServer"
    /\ grpcS' = [grpcS EXCEPT !.services = @ \cup {"Raft"}]
    /\ Goto(After("RegisterRaftServer"))
    /\ UNCHANGED <<m, httpResponses, folderErr, masterAddress, cleanedPeers, myMasterAddress,
                   peers, r, ms, masterListener, raftServer, grpcL, tasks>>

\* reflection.Register(grpcS)
ReflectionRegister ==
    /\ pc = "reflectionRegister"
    /\ grpcS' = [grpcS EXCEPT !.reflection = TRUE]
    /\ Goto(After("reflectionRegister"))
    /\ UNCHANGED <<m, httpResponses, folderErr, masterAddress, cleanedPeers, myMasterAddress,
                   peers, r, ms, masterListener, raftServer, grpcL, tasks>>

GoSynchronous(label, task) ==
    /\ pc = label
    /\ \/ /\ tasks[task] = "none"
          /\ tasks' = [tasks EXCEPT ![task] = "running"]
          /\ UNCHANGED <<pc, exit>>
       \/ /\ tasks[task] = "returned"
          /\ Goto(After(label))
          /\ UNCHANGED tasks
    /\ UNCHANGED <<m, httpResponses, folderErr, masterAddress, cleanedPeers,
                   myMasterAddress, peers, r, ms, masterListener, raftServer,
                   grpcL, grpcS>>

\* a go statement: the goroutine exists from here on
Go(label, task) ==
    /\ pc = label
    /\ tasks' = [tasks EXCEPT ![task] = "running"]
    /\ Goto(After(label))
    /\ UNCHANGED <<m, httpResponses, folderErr, masterAddress, cleanedPeers, myMasterAddress,
                   peers, r, ms, masterListener, raftServer, grpcL, grpcS>>

\* go grpcS.Serve(grpcL)
GoGrpcServe == Go("goGrpcServe", "grpcServe")

\* go ms.MasterClient.KeepConnectedToMaster()
GoKeepConnectedToMaster == Go("goKeepConnectedToMaster", "keepConnectedToMaster")

\* httpS := &http.Server{Handler: r}; go httpS.Serve(masterListener)
GoHttpServe == Go("goHttpServe", "httpServe")

\* select {} has no case: the main goroutine has no step at "select", and
\* the return statement of runMaster is never reached

-----------------------------------------------------------------------------
(* The goroutines *)

TaskReturnExits(task) ==
    /\ exit = "running"
    /\ tasks[task] = "running"
    /\ tasks' = [tasks EXCEPT ![task] = "returned"]
    /\ Fatalf(task)
    /\ UNCHANGED <<m, httpResponses, folderErr, masterAddress, cleanedPeers, myMasterAddress,
                   peers, r, ms, masterListener, raftServer, grpcL, grpcS>>

\* the function of a go statement returns (Serve returns its error, the
\* keep-alive loop ends): the value is dropped and the goroutine ends
TaskReturn(task) ==
    /\ exit = "running"
    /\ tasks[task] = "running"
    /\ tasks' = [tasks EXCEPT ![task] = "returned"]
    /\ UNCHANGED <<m, httpResponses, pc, exit, folderErr, masterAddress,
                   cleanedPeers, myMasterAddress, peers, r, ms,
                   masterListener, raftServer, grpcL, grpcS>>

\* httpS.Serve(masterListener) with Handler r answers a GET /cluster/status
\* request: the router dispatches it to raftServer.StatusHandler when the
\* route is registered, and answers 404 otherwise
HttpServeRequest ==
    /\ exit = "running"
    /\ tasks["httpServe"] = "running"
    /\ masterListener.bound
    /\ httpResponses' = httpResponses \cup
           {[route |-> "GET /cluster/status" \in r.routes,
             raftServer |-> ms.raftServer]}
    /\ UNCHANGED <<m, pc, exit, folderErr, masterAddress, cleanedPeers,
                   myMasterAddress, peers, r, ms, masterListener, raftServer,
                   grpcL, grpcS, tasks>>

-----------------------------------------------------------------------------

Next ==
    \/ TestFolderWritable
    \/ CheckVolumeSizeLimit
    \/ CheckPeers
    \/ NewRouter
    \/ NewMasterServer
    \/ NewMasterListener
    \/ NewRaftServer
    \/ SetRaftServer
    \/ HandleFunc
    \/ NewGrpcListener
    \/ NewGrpcServer
    \/ RegisterSeaweedServer
    \/ RegisterRaftServer
    \/ ReflectionRegister
    \/ GoGrpcServe
    \/ GoKeepConnectedToMaster
    \/ GoHttpServe
    \/ \E task \in TaskNames : TaskReturn(task)
    \/ HttpServeRequest

Spec == Init /\ [][Next]_vars

\* the steps of the main goroutine
Main ==
    \/ TestFolderWritable
    \/ CheckVolumeSizeLimit
    \/ CheckPeers
    \/ NewRouter
    \/ NewMasterServer
    \/ NewMasterListener
    \/ NewRaftServer
    \/ SetRaftServer
    \/ HandleFunc
    \/ NewGrpcListener
    \/ NewGrpcServer
    \/ RegisterSeaweedServer
    \/ RegisterRaftServer
    \/ ReflectionRegister
    \/ GoGrpcServe
    \/ GoKeepConnectedToMaster
    \/ GoHttpServe

\* the scheduler runs the main goroutine whenever it can take a step (none
\* of its statements waits for another goroutine); nothing is assumed about
\* the progress of the three tasks
FairSpec == Spec /\ WF_vars(Main)

-----------------------------------------------------------------------------
(* Helpers of the properties *)

\* split(L): the comma-split entries of L, none when L is empty
SplitEntries(L) == IF Len(L) = 0 THEN <<>> ELSE Split(L, ",")

\* how often x occurs in list
Occurrences(list, x) == Cardinality({i \in 1..Len(list) : list[i] = x})

\* S = selfIP + ":" + port
SelfAddress == m.ip \o <<":">> \o Itoa(m.port)

\* checkPeers has computed its results
PeersComputed == masterAddress /= <<>>

\* checkPeers has returned to startMaster
PeersReturned == myMasterAddress /= <<>>

\* the position of the last ":" of an address (0 when there is none)
LastColon(addr) ==
    LET cs == {i \in 1..Len(addr) : addr[i] = ":"}
    IN  IF cs = {} THEN 0 ELSE CHOOSE i \in cs : \A j \in cs : j <= i

HostOf(addr) == SubSeq(addr, 1, LastColon(addr) - 1)

DigitValue(c) == (CHOOSE i \in 1..10 : Digits[i] = c) - 1

RECURSIVE Atoi(_)
Atoi(ds) == IF ds = <<>> THEN 0
            ELSE 10 * Atoi(SubSeq(ds, 1, Len(ds) - 1)) + DigitValue(ds[Len(ds)])

PortOf(addr) == Atoi(SubSeq(addr, LastColon(addr) + 1, Len(addr)))

AnyListenerBound == masterListener.bound \/ grpcL.bound

AnyTaskStarted == \E t \in TaskNames : tasks[t] /= "none"

ScenarioPeers2 == H1 \o <<":">> \o P9333 \o <<",">> \o H2 \o <<":">> \o P9333

ScenarioPeers3 == ScenarioPeers2 \o <<",">> \o H3 \o <<":">> \o P9333

-----------------------------------------------------------------------------
(* Properties *)

\* C1: once checkPeers has computed its list, with S the self address and
\* split(L) the comma-split entries of the raw list: if S is not an entry of
\* split(L) the list has |split(L)| + 1 entries and holds S exactly once;
\* if S is an entry it has |split(L)| entries.
C1_PeerCount ==
    PeersComputed =>
        LET split == SplitEntries(m.peers)
        IN  IF Occurrences(split, SelfAddress) = 0
            THEN /\ Len(cleanedPeers) = Len(split) + 1
                 /\ Occurrences(cleanedPeers, SelfAddress) = 1
            ELSE Len(cleanedPeers) = Len(split)

C1_Witness ==
    /\ PeersComputed
    /\ Occurrences(SplitEntries(m.peers), SelfAddress) = 1
    /\ Len(cleanedPeers) = 3

\* C2: every peer list checkPeers returns to startMaster has odd length; a
\* list of even length after self-inclusion ends in the fatal exit and the
\* bootstrap does not continue.  Self 10.0.0.1:9333 with the two-entry
\* scenario list is rejected, with the three-entry list it is accepted.
C2_OddPeers ==
    /\ PeersReturned => Len(peers) % 2 = 1
    /\ (PeersComputed /\ Len(cleanedPeers) % 2 = 0) =>
           (exit = "evenPeers" /\ pc = "exited" /\ ~PeersReturned)
    /\ (PeersComputed /\ m.ip = H1 /\ m.port = 9333) =>
           /\ m.peers = ScenarioPeers2 => exit = "evenPeers"
           /\ m.peers = ScenarioPeers3 => (PeersReturned /\ Len(peers) = 3)

C2_Witness ==
    /\ m.ip = H1
    /\ m.port = 9333
    /\ m.peers = ScenarioPeers2
    /\ exit = "evenPeers"

\* C3 as stated: whenever the management service, the consensus service or
\* the RPC server is constructed, both listeners are already bound.
C3_BothBoundBeforeAnyService ==
    (ms.built \/ raftServer.built \/ grpcS.built) =>
        (masterListener.bound /\ grpcL.bound)

\* C3 amended: both listeners are bound before the RPC server is
\* constructed; the management listener is bound after the management
\* service is constructed and before the consensus service is, and the RPC
\* listener is bound after the consensus service is constructed.
C3_BindOrder ==
    /\ grpcS.built => (masterListener.bound /\ grpcL.bound)
    /\ raftServer.built => masterListener.bound
    /\ masterListener.bound => ms.built
    /\ grpcL.bound => (raftServer.built /\ masterListener.bound)

C3_Witness ==
    /\ grpcS.built
    /\ masterListener.bound
    /\ grpcL.bound

\* C4: the consensus service is constructed only after the management
\* service is constructed, and receives its topology handle; SetRaftServer
\* has wired the consensus reference before either RPC registration; both
\* registrations are made before any serve task is started.
C4_TotalOrder ==
    /\ raftServer.built => (ms.built /\ ms.Topo /\ raftServer.topo)
    /\ grpcS.services /= {} => ms.raftServer
    /\ AnyTaskStarted => grpcS.services = {"Seaweed", "Raft"}

C4_Witness ==
    /\ pc = "select"
    /\ \A t \in TaskNames : tasks[t] = "running"
    /\ raftServer.topo
    /\ ms.raftServer

\* C5: no listener is bound unless the meta folder check has passed; when
\* the check fails the process has exited with no listener bound and no
\* service constructed.
C5_FolderCheckFirst ==
    /\ AnyListenerBound => folderErr = "nil"
    /\ folderErr = "err" =>
           /\ exit = "metaFolder"
           /\ ~AnyListenerBound
           /\ ~ms.built /\ ~raftServer.built /\ ~grpcS.built

C5_Witness ==
    /\ folderErr = "err"
    /\ exit = "metaFolder"

C7_EvenPeersBeforeBind ==
    exit = "evenPeers" => (~masterListener.bound /\ ~grpcL.bound)

C7_Witness ==
    /\ exit = "evenPeers"
    /\ Len(cleanedPeers) = 2

FatalConditions == {"metaFolder", "volumeSizeLimitMB", "evenPeers",
                    "masterListener", "raftServer", "grpcL"}

\* C8: when a fatal bootstrap condition has occurred the process has
\* terminated and no serving task was started; a serving task is started
\* only after every check has succeeded.
C8_NoHalfStart ==
    /\ exit \in FatalConditions \cup {"running"}
    /\ exit /= "running" =>
           (pc = "exited" /\ \A t \in TaskNames : tasks[t] = "none")
    /\ AnyTaskStarted =>
           /\ exit = "running"
           /\ folderErr = "nil"
           /\ m.volumeSizeLimitMB <= 30000
           /\ PeersReturned /\ Len(peers) % 2 = 1
           /\ masterListener.bound
           /\ raftServer.built
           /\ grpcL.bound

C8_Witness ==
    /\ exit = "grpcL"
    /\ raftServer.built
    /\ masterListener.bound
    /\ \A t \in TaskNames : tasks[t] = "none"

\* C9: once the main goroutine is at select {} it stays there and the
\* process keeps running, whatever the three tasks do.
C9_BlocksForever ==
    [][pc = "select" => (pc' = "select" /\ exit' = "running")]_vars

C9_Witness ==
    /\ pc = "select"
    /\ exit = "running"
    /\ \A t \in TaskNames : tasks[t] = "returned"

\* C10: the management listener is bound on bindHost:P and the RPC listener
\* on the same host, port P + 10000.
C10_GrpcPort ==
    /\ masterListener.bound =>
           /\ HostOf(masterListener.addr) = m.ipBind
           /\ PortOf(masterListener.addr) = m.port
    /\ grpcL.bound =>
           /\ HostOf(grpcL.addr) = m.ipBind
           /\ PortOf(grpcL.addr) = m.port + 10000

C10_Witness ==
    /\ grpcL.bound
    /\ masterListener.bound
    /\ PortOf(masterListener.addr) = 9333
    /\ PortOf(grpcL.addr) = 19333

\* no entry of list occurs twice
NoDuplicates(list) ==
    \A i, j \in 1..Len(list) : list[i] = list[j] => i = j

\* C11 as stated: no address occurs more than once in a list checkPeers
\* returns.
C11_NoDuplicates ==
    PeersReturned => NoDuplicates(peers)

\* C11 amended: when the comma-split entries of the raw list are pairwise
\* distinct, no address occurs more than once in the list checkPeers
\* returns (the self address is not added a second time); entries repeated
\* in the raw list are kept.
C11_NoDuplicatesAdded ==
    (PeersReturned /\ NoDuplicates(SplitEntries(m.peers))) =>
        NoDuplicates(peers)

C11_Witness ==
    /\ PeersReturned
    /\ NoDuplicates(SplitEntries(m.peers))
    /\ Occurrences(SplitEntries(m.peers), SelfAddress) = 1
    /\ Len(peers) = 3

\* C12: with an empty raw peer list checkPeers computes the one-entry list
\* holding the self address, and returns it (no fatal exit at the parity
\* check).
C12_EmptyPeers ==
    (PeersComputed /\ Len(m.peers) = 0) =>
        /\ cleanedPeers = <<SelfAddress>>
        /\ PeersReturned
        /\ peers = <<SelfAddress>>
        /\ exit /= "evenPeers"

C12_Witness ==
    /\ Len(m.peers) = 0
    /\ PeersReturned
    /\ Len(peers) = 1
    /\ pc = "NewRouter"

\* C13 as stated: the self address has the host the listeners are bound on.
C13_SelfHostIsBindHost ==
    (PeersReturned /\ masterListener.bound) =>
        HostOf(myMasterAddress) = HostOf(masterListener.addr)

\* C13 amended: the self address matched against the peer list and passed
\* to the consensus service is the -ip flag, ":" and the configured port:
\* it has the port of the management listener, and its host is the -ip
\* flag, not the bind host of the listeners.
C13_SelfAddressFromIp ==
    /\ PeersComputed =>
           /\ HostOf(masterAddress) = m.ip
           /\ PortOf(masterAddress) = m.port
    /\ PeersReturned => myMasterAddress = masterAddress
    /\ raftServer.built => raftServer.serverAddr = masterAddress
    /\ (PeersReturned /\ masterListener.bound) =>
           PortOf(myMasterAddress) = PortOf(masterListener.addr)

C13_Witness ==
    /\ raftServer.built
    /\ masterListener.bound
    /\ HostOf(raftServer.serverAddr) = H2
    /\ HostOf(masterListener.addr) = AnyHost

\* C14: the list given to the management service and the list given to the
\* consensus service are the list the one checkPeers call returned, and
\* once it is returned no step changes it or computes it again.
C14_PeersFrozen ==
    /\ [](/\ PeersReturned => peers = cleanedPeers
          /\ ms.built => ms.peers = cleanedPeers
          /\ raftServer.built => raftServer.peers = cleanedPeers)
    /\ [][PeersComputed =>
            /\ cleanedPeers' = cleanedPeers
            /\ masterAddress' = masterAddress
            /\ peers' = peers
            /\ ms'.peers = ms.peers \/ ~ms.built
            /\ raftServer'.peers = raftServer.peers \/ ~raftServer.built]_vars

C14_Witness ==
    /\ pc = "select"
    /\ ms.built
    /\ raftServer.built
    /\ Len(peers) = 3
    /\ ms.peers = peers
    /\ raftServer.peers = peers
    /\ Occurrences(SplitEntries(m.peers), SelfAddress) = 0

\* C15: the GET /cluster/status route is registered only once the consensus
\* service is constructed, and before the HTTP serve task is started; every
\* request the HTTP server answers finds the route registered and the
\* management service's consensus reference set.
C15_StatusRoute ==
    /\ "GET /cluster/status" \in r.routes => raftServer.built
    /\ tasks["httpServe"] /= "none" =>
           /\ "GET /cluster/status" \in r.routes
           /\ ms.raftServer
    /\ \A response \in httpResponses :
           response.route /\ response.raftServer

C15_Witness ==
    /\ httpResponses /= {}
    /\ tasks["httpServe"] = "running"
    /\ "GET /cluster/status" \in r.routes

\* C16: once the first task is started the main goroutine reaches select {}
\* whether or not any task takes a step or returns, and the return of a
\* task leaves the process running and the main goroutine where it is.
C16_TasksDoNotBlock ==
    /\ AnyTaskStarted ~> pc = "select"
    /\ [][\A t \in TaskNames :
            (tasks[t] = "running" /\ tasks'[t] = "returned") =>
                (exit' = "running" /\ pc' = pc)]_vars

C16_Witness ==
    /\ pc = "select"
    /\ exit = "running"
    /\ tasks["grpcServe"] = "returned"
    /\ tasks["keepConnectedToMaster"] = "running"
    /\ tasks["httpServe"] = "running"

\* the number of entries a comma-separated string has: one more than it
\* has commas
EntryCount(L) == Cardinality({i \in 1..Len(L) : L[i] = ","}) + 1

\* C17: for a non-empty raw list L the list checkPeers computes starts with
\* the entries of L verbatim and in order (joined with commas they give
\* back L, character for character), followed by the self address as last
\* element exactly when no entry equals it; the parity check counts every
\* entry, empty and repeated ones included.
C17_Verbatim ==
    (PeersComputed /\ Len(m.peers) > 0) =>
        LET n == EntryCount(m.peers)
        IN  /\ Len(cleanedPeers) \in {n, n + 1}
            /\ \A i \in 1..n : \A k \in 1..Len(cleanedPeers[i]) :
                   cleanedPeers[i][k] /= ","
            /\ Join(SubSeq(cleanedPeers, 1, n), ",") = m.peers
            /\ Len(cleanedPeers) = n + 1 <=>
                   (\A i \in 1..n : cleanedPeers[i] /= SelfAddress)
            /\ Len(cleanedPeers) = n + 1 => cleanedPeers[n + 1] = SelfAddress
            /\ exit = "evenPeers" <=> Len(cleanedPeers) % 2 = 0
            /\ PeersReturned <=> Len(cleanedPeers) % 2 = 1
            /\ PeersReturned => peers = cleanedPeers

C17_Witness ==
    /\ PeersReturned
    /\ Len(peers) = 3
    /\ peers[1] = SelfAddress
    /\ peers[2] = <<>>
    /\ peers[3] = <<>>

====
